---- MODULE Spec2Model ----
(***************************************************************************)
(* Model of src/App.py: a password-gated Streamlit page that loads the    *)
(* "Germany *.csv" files, drops a units row, chooses and parses the        *)
(* timestamp column, derives a Month key and aggregates a technology       *)
(* column per month.                                                       *)
(*                                                                         *)
(* One Streamlit rerun is one pass over the script.  The pass is cut into  *)
(* steps at the places where the script can halt (st.stop) and pc names    *)
(* the step that runs next.  The session state (logged_in), the files in   *)
(* the app folder and the configured secret survive from rerun to rerun;   *)
(* every other variable is a local of the script and is reset when a       *)
(* rerun starts.                                                           *)
(*                                                                         *)
(* pandas is modelled as pandas 2.x behaves on the cell texts enumerated   *)
(* below.  Instants are whole hours since 1970-01-01 00:00.  A timestamp   *)
(* column holds texts of one textual format (plus empty and unparseable    *)
(* cells), so that a tz-aware result has one fixed offset.                 *)
(***************************************************************************)
EXTENDS Integers, Sequences, FiniteSets, TLC

VARIABLES
    secret_password,      \* SECRET_PASSWORD as read by get_config_value (line 33)
    files,                \* the app folder: file name -> [header, rows]
    logged_in,            \* st.session_state['logged_in']: "absent", "true", "false"
    submitted,            \* the login form's submit flag of the current rerun
    password,             \* the text of the password field of the current rerun
    last_submission,      \* history: "none", "match", "mismatch" (latest submission)
    pc,                   \* the step of the script that runs next; "idle" between reruns
    outcome,              \* what the last pass showed the user
    df,                   \* the script's DataFrame: [columns, rows]
    date_col_candidates,  \* second value returned by load_data
    date_col,             \* the selectbox's value
    user_override,        \* history: the user picked another option than index 0
    parse_strategy,       \* history: the strategy try_parse_datetime returned from
    candidate_techs,      \* the technology list
    selected_tech,        \* the technology selectbox's value
    monthly_avg_mw,       \* groupby("Month").mean()
    monthly_gwh,          \* groupby("Month").sum() / 4000.0
    cache                 \* st.cache_data's entry for load_data(): [filled, df, candidates]

vars == <<secret_password, files, logged_in, submitted, password, last_submission,
          pc, outcome, df, date_col_candidates, date_col, user_override,
          parse_strategy, candidate_techs, selected_tech, monthly_avg_mw,
          monthly_gwh, cache>>

-----------------------------------------------------------------------------
(* Bounds of the model *)

\* longest timestamp column of the timestamp-parsing inputs
MaxTsRows == 6
\* longest table of the aggregation inputs
MaxAggRows == 3
\* widest header of the units-row and column-name inputs
MaxCols == 3

-----------------------------------------------------------------------------
(* Cells.  Every cell has the same shape so that cells compare. *)

Str(s) == [k |-> "str", s |-> s, n |-> 0]
Num(n) == [k |-> "num", s |-> "", n |-> n]
NaN == [k |-> "nan", s |-> "", n |-> 0]
Ts(t, tz) == [k |-> "ts", s |-> tz, n |-> t]
NaT == [k |-> "nat", s |-> "", n |-> 0]

\* Series.notna() on one cell
NotNa(c) == c.k \notin {"nan", "nat"}

\* the number of non-missing cells of a series
RECURSIVE NotNaCount(_)
NotNaCount(s) ==
    IF s = <<>> THEN 0
    ELSE (IF NotNa(Head(s)) THEN 1 ELSE 0) + NotNaCount(Tail(s))

-----------------------------------------------------------------------------
(* Calendar: the months the model's instants fall in. *)

Jan1970 == 0 * 24
Feb1970 == 31 * 24
Dec2024 == 20058 * 24
Jan2025 == 20089 * 24
Feb2025 == 20120 * 24
Mar2025 == 20148 * 24

MonthStarts == {Jan1970, Feb1970, Dec2024, Jan2025, Feb2025, Mar2025}

SetMax(S) == CHOOSE x \in S : \A y \in S : y <= x

\* the start of the day of an instant: what line 235 would give with period "D"
DayStart(t) == (t \div 24) * 24

\* .dt.to_period("M").dt.to_timestamp() on one instant (line 235)
MonthStart(t) == SetMax({m \in MonthStarts : m <= t})

-----------------------------------------------------------------------------
(* Column names.  A name is a sequence of chunks: the artifacts "BOM"      *)
(* (U+FEFF), "ZWSP" (U+200B) and "SP" (a blank), and words.  No keyword    *)
(* the script looks for spans two chunks.                                  *)

\* the keywords (of lines 127 and 246-249) that str(chunk).lower() contains
LowerContains(chunk) ==
    CASE chunk \in {"Date", "date"} -> {"date"}
      [] chunk \in {"Datetime", "datetime"} -> {"date", "time"}
      [] chunk = "Timestamp" -> {"time", "timestamp"}
      [] chunk \in {"Time", "time"} -> {"time"}
      [] chunk = "period" -> {"period"}
      [] chunk = "Price" -> {"price"}
      [] chunk = "Load" -> {"load"}
      [] chunk = "Auction" -> {"auction"}
      [] OTHER -> {}

\* key in str(c).lower()
NameContains(name, key) == \E i \in 1..Len(name) : key \in LowerContains(name[i])

SourceFileCol == <<"__SourceFile">>
MonthCol == <<"Month">>

IndexOf(seq, x) == CHOOSE i \in 1..Len(seq) : seq[i] = x
InSeq(seq, x) == \E i \in 1..Len(seq) : seq[i] = x

-----------------------------------------------------------------------------
(* load_data, lines 84-132 *)

FileOrder == <<"Germany 2024.csv", "Germany 2025.csv", "notes.csv">>

\* glob.glob("Germany *.csv") on one name
GlobMatches(name) == name \in {"Germany 2024.csv", "Germany 2025.csv"}

\* lines 91-95: the sorted matching paths, or the fallback path
Paths(fs) ==
    LET hit(n) == n \in DOMAIN fs /\ GlobMatches(n)
        paths == SelectSeq(FileOrder, hit)
    IN IF paths # <<>> THEN paths
       ELSE IF "Germany 2025.csv" \in DOMAIN fs THEN <<"Germany 2025.csv">>
       ELSE <<>>

\* the texts pandas.read_csv reads as a missing value
NaTexts == {"", "n/a", "NA"}

ReadCell(text) == IF text \in NaTexts THEN NaN ELSE Str(text)

\* encoding="utf-8-sig" (line 104): a byte-order mark at the start of the file,
\* that is, at the start of the first column name, is not part of the text
ReadHeader(raw) ==
    [i \in 1..Len(raw) |->
        IF i = 1 /\ raw[1] # <<>> /\ Head(raw[1]) = "BOM" THEN Tail(raw[1]) ELSE raw[i]]

\* the cells line 109 takes the mean over: df.iloc[0], which holds the
\* __SourceFile cell that line 105 added
UnitsCells(row) == row

\* str.lower().str.contains(r"power\s*\(mw\)|price\s*\(") on one cell (line 111)
UnitsMatch(c) == c.k = "str" /\ c.s \in {"Power (MW)", "power(mw)", "Price (EUR/MWh)"}

RECURSIVE UnitsHitCount(_)
UnitsHitCount(cells) ==
    IF cells = <<>> THEN 0
    ELSE (IF UnitsMatch(Head(cells)) THEN 1 ELSE 0) + UnitsHitCount(Tail(cells))

\* units_hits > 0.3 (line 113), in tenths
IsUnitsRow(row) ==
    LET cells == UnitsCells(row)
    IN UnitsHitCount(cells) * 10 > 3 * Len(cells)

\* lines 104-114 for the file of index f: a row keeps its place in the file
\* as src
ReadFile(fs, name, f) ==
    LET file == fs[name]
        cols == ReadHeader(file.header) \o <<SourceFileCol>>
        rows == [r \in 1..Len(file.rows) |->
                    [src |-> <<f, r>>,
                     cells |-> [j \in 1..Len(file.rows[r]) |-> ReadCell(file.rows[r][j])]
                               \o <<Str(name)>>]]
    IN [columns |-> cols,
        rows |-> IF rows # <<>> /\ IsUnitsRow(rows[1].cells) THEN Tail(rows) ELSE rows]

\* pd.concat: the columns in order of first appearance
RECURSIVE UnionColumns(_, _)
UnionColumns(dfs, acc) ==
    IF dfs = <<>> THEN acc
    ELSE LET new(c) == ~InSeq(acc, c)
         IN UnionColumns(Tail(dfs), acc \o SelectSeq(Head(dfs).columns, new))

Realign(d, cols) ==
    [r \in 1..Len(d.rows) |->
        [src |-> d.rows[r].src,
         cells |-> [j \in 1..Len(cols) |->
                      IF InSeq(d.columns, cols[j])
                      THEN d.rows[r].cells[IndexOf(d.columns, cols[j])]
                      ELSE NaN]]]

RECURSIVE ConcatRows(_, _)
ConcatRows(dfs, cols) ==
    IF dfs = <<>> THEN <<>>
    ELSE Realign(Head(dfs), cols) \o ConcatRows(Tail(dfs), cols)

\* line 118
Concat(dfs) ==
    LET cols == UnionColumns(dfs, <<>>)
    IN [columns |-> cols, rows |-> ConcatRows(dfs, cols)]

\* lines 121-124
name_candidates ==
    << <<"Date", "SP", "(GMT+1)">>, <<"Date">>, <<"Datetime">>, <<"Timestamp">>,
       <<"Time", "SP", "(GMT+1)">>, <<"date">>, <<"time">>, <<"datetime">>,
       <<"period">>, <<"delivery_start">>, <<"delivery", "SP", "time">> >>

\* line 127
DateLike(c) == \E key \in {"date", "time", "timestamp"} : NameContains(c, key)

\* the choice by position: the first column of the table and no other
PositionFirst(columns) ==
    IF columns = <<>> THEN <<>> ELSE <<columns[1]>>

\* lines 126-131
ExistingCandidates(columns) ==
    LET extra(c) == DateLike(c) /\ ~InSeq(name_candidates, c)
        all == name_candidates \o SelectSeq(columns, extra)
        present(c) == InSeq(columns, c)
    IN SelectSeq(all, present)

EmptyDf == [columns |-> <<>>, rows |-> <<>>]

\* load_data(): raises when no file matches (line 96) or when read_csv raises
\* on a file without a header line (line 104)
load_data(fs) ==
    LET paths == Paths(fs)
    IN IF paths = <<>> \/ \E i \in 1..Len(paths) : fs[paths[i]].header = <<>>
       THEN [ok |-> FALSE, df |-> EmptyDf, candidates |-> <<>>]
       ELSE LET df_all == Concat([i \in 1..Len(paths) |-> ReadFile(fs, paths[i], i)])
            IN [ok |-> TRUE, df |-> df_all,
                candidates |-> ExistingCandidates(df_all.columns)]

-----------------------------------------------------------------------------
(* try_parse_datetime, lines 134-190 *)

IsoTzTexts == {"2025-01-01T00:00+01:00", "2025-01-15T12:00+01:00", "2025-02-01T00:00+01:00"}
IsoTexts == {"2024-12-15 00:00", "2025-01-01 00:00", "2025-01-15 12:00", "2025-02-01 00:00"}
SlashLow == "01/02/2025 00:00"
SlashHigh == "13/01/2025 00:00"
EpochMs == "1735689600000"
EpochS == "1738800000"

\* the wall-clock hour a text of IsoTzTexts or IsoTexts shows
WallClock(text) ==
    CASE text \in {"2025-01-01T00:00+01:00", "2025-01-01 00:00"} -> Jan2025
      [] text \in {"2025-01-15T12:00+01:00", "2025-01-15 12:00"} -> Jan2025 + 14 * 24 + 12
      [] text \in {"2025-02-01T00:00+01:00", "2025-02-01 00:00"} -> Feb2025
      [] text = "2024-12-15 00:00" -> Dec2024 + 14 * 24
      [] OTHER -> 0

\* the hours east of UTC of a tz marker
OffsetHours(tz) == IF tz = "+01:00" THEN 1 ELSE 0

\* astype(str).str.strip().str.replace(U+200B, "") and "" -> NA (lines 147-149):
\* the cleaned text of a cell; "" and "nan" stand for a missing value
CleanText(c) ==
    IF c.k = "nan" THEN "nan"
    ELSE CASE c.s = " 2025-01-15 12:00<U+200B> " -> "2025-01-15 12:00"
           [] c.s = " " -> ""
           [] OTHER -> c.s

Missing(text) == text \in {"", "nan"}

RECURSIVE FirstNonNull(_)
FirstNonNull(texts) ==
    IF texts = <<>> THEN ""
    ELSE IF ~Missing(Head(texts)) THEN Head(texts) ELSE FirstNonNull(Tail(texts))

\* the format pd.to_datetime(format=None) infers from the first non-null text;
\* "none" when it infers none and parses each text on its own
GuessFormat(text) ==
    CASE text \in IsoTzTexts -> "isotz"
      [] text \in IsoTexts -> "iso"
      [] text = SlashLow -> "mdy"
      [] text = SlashHigh -> "dmy"
      [] OTHER -> "none"

\* Strategy A on one text, given the inferred format (line 152)
FlexCell(g, text) ==
    CASE text \in IsoTzTexts /\ g \in {"isotz", "none"} -> Ts(WallClock(text), "+01:00")
      [] text \in IsoTexts /\ g \in {"iso", "none"} -> Ts(WallClock(text), "naive")
      [] text = SlashLow /\ g \in {"mdy", "none"} -> Ts(Jan2025 + 24, "naive")
      [] text = SlashLow /\ g = "dmy" -> Ts(Feb2025, "naive")
      [] text = SlashHigh /\ g \in {"dmy", "none"} -> Ts(Jan2025 + 12 * 24, "naive")
      [] OTHER -> NaT

\* lines 157-171
common_formats ==
    <<"%Y-%m-%dT%H:%M%z", "%Y-%m-%d %H:%M%z", "%Y-%m-%d %H:%M", "%Y-%m-%d %H:%M:%S",
      "%d/%m/%Y %H:%M", "%d/%m/%Y %H:%M:%S", "%m/%d/%Y %H:%M", "%m/%d/%Y %H:%M:%S",
      "%Y-%m-%d", "%d/%m/%Y", "%m/%d/%Y", "%d-%m-%Y %H:%M", "%Y.%m.%d %H:%M">>

\* Strategy B on one text: pd.to_datetime(format=fmt), an exact match (line 173)
FormatCell(fmt, text) ==
    CASE fmt = "%Y-%m-%dT%H:%M%z" /\ text \in IsoTzTexts -> Ts(WallClock(text), "+01:00")
      [] fmt = "%Y-%m-%d %H:%M" /\ text \in IsoTexts -> Ts(WallClock(text), "naive")
      [] fmt = "%d/%m/%Y %H:%M" /\ text = SlashLow -> Ts(Feb2025, "naive")
      [] fmt = "%d/%m/%Y %H:%M" /\ text = SlashHigh -> Ts(Jan2025 + 12 * 24, "naive")
      [] fmt = "%m/%d/%Y %H:%M" /\ text = SlashLow -> Ts(Jan2025 + 24, "naive")
      [] OTHER -> NaT

\* pd.to_numeric on one text of the timestamp column (line 178)
NumericText(text) == text \in {EpochMs, EpochS}

\* Strategy C on one text: the number as milliseconds or as seconds since the
\* epoch; NaT where the instant is out of bounds (lines 180, 183)
EpochCell(unit, text) ==
    CASE unit = "ms" /\ text = EpochMs -> Ts(Jan2025, "naive")
      [] unit = "ms" /\ text = EpochS -> Ts(483, "naive")
      [] unit = "s" /\ text = EpochS -> Ts(483000, "naive")
      [] OTHER -> NaT

\* the strategies in the order the function tries them
Strategies == <<"flex">> \o common_formats \o <<"ms", "s">>

\* the series a strategy produces from the cleaned texts
StrategyParse(strategy, texts) ==
    [i \in 1..Len(texts) |->
        IF Missing(texts[i]) THEN NaT
        ELSE IF strategy = "flex" THEN FlexCell(GuessFormat(FirstNonNull(texts)), texts[i])
        ELSE IF strategy \in {"ms", "s"} THEN EpochCell(strategy, texts[i])
        ELSE FormatCell(strategy, texts[i])]

\* notna().mean() > 0.8, in tenths; the mean of an empty series is NaN and
\* NaN > 0.8 is False
Accepts(series) == NotNaCount(series) * 10 > 8 * Len(series)

\* pd.api.types.is_datetime64_any_dtype (line 143)
IsDatetime(series) == series # <<>> /\ \A i \in 1..Len(series) : series[i].k \in {"ts", "nat"}

\* the first format of fmts, from index i on, whose result is accepted; 0 if none
RECURSIVE FirstFormat(_, _, _)
FirstFormat(fmts, i, texts) ==
    IF i > Len(fmts) THEN 0
    ELSE IF Accepts(StrategyParse(fmts[i], texts)) THEN i
    ELSE FirstFormat(fmts, i + 1, texts)

Failed == [ok |-> FALSE, strategy |-> "none", values |-> <<>>]
Parsed(strategy, values) == [ok |-> TRUE, strategy |-> strategy, values |-> values]

\* the strategies in another order: the explicit formats before the flexible
\* parse, and no numeric strategy
FormatsFirst(series) ==
    LET texts == [i \in 1..Len(series) |-> CleanText(series[i])]
        b == FirstFormat(common_formats, 1, texts)
    IN IF b > 0 THEN Parsed(common_formats[b], StrategyParse(common_formats[b], texts))
       ELSE IF Accepts(StrategyParse("flex", texts))
       THEN Parsed("flex", StrategyParse("flex", texts))
       ELSE Failed

try_parse_datetime(series) ==
    IF IsDatetime(series) THEN Parsed("datetime", series)
    ELSE
    LET texts == [i \in 1..Len(series) |-> CleanText(series[i])]
        s_iso == StrategyParse("flex", texts)
        b == FirstFormat(common_formats, 1, texts)
        s_num == [i \in 1..Len(texts) |-> IF NumericText(texts[i]) THEN Num(0) ELSE NaN]
        s_ms == StrategyParse("ms", texts)
        s_s == StrategyParse("s", texts)
    IN IF Accepts(s_iso) THEN Parsed("flex", s_iso)
       ELSE IF b > 0 THEN Parsed(common_formats[b], StrategyParse(common_formats[b], texts))
       ELSE IF Accepts(s_num) /\ Accepts(s_ms) THEN Parsed("ms", s_ms)
       ELSE IF Accepts(s_num) /\ Accepts(s_s) THEN Parsed("s", s_s)
       ELSE Failed

-----------------------------------------------------------------------------
(* Load & Parse, lines 192-235 *)

Column(d, c) == [r \in 1..Len(d.rows) |-> d.rows[r].cells[IndexOf(d.columns, c)]]

\* df[c] = values
SetColumn(d, c, values) ==
    [columns |-> d.columns,
     rows |-> [r \in 1..Len(d.rows) |->
                 [src |-> d.rows[r].src,
                  cells |-> [d.rows[r].cells EXCEPT ![IndexOf(d.columns, c)] = values[r]]]]]

\* pd.api.types.is_datetime64tz_dtype (line 215)
IsTzAware(series) == \E i \in 1..Len(series) : series[i].k = "ts" /\ series[i].s # "naive"

\* .dt.tz_convert("UTC").dt.tz_localize(None) on one cell (line 221)
ConvertUtcThenDrop(c) == IF c.k = "ts" THEN Ts(c.n - OffsetHours(c.s), "naive") ELSE c

\* .dt.tz_localize(None) on one cell of a tz-aware series (line 218): the
\* wall-clock time stays and the marker goes; it never raises on a tz-aware
\* series, so line 221 does not run
DropTimezone(c) == IF c.k = "ts" THEN Ts(c.n, "naive") ELSE c

\* lines 215-221
NormalizeTz(series) ==
    IF IsTzAware(series) THEN [i \in 1..Len(series) |-> DropTimezone(series[i])]
    ELSE series

\* df[date_col].notna() on one row (line 232)
ValidRow(d, c, row) == NotNa(row.cells[IndexOf(d.columns, c)])

\* the Month value of a timestamp cell (line 235)
MonthOf(c) == IF c.k = "ts" THEN Ts(MonthStart(c.n), c.s) ELSE NaT

\* lines 232-235
CleanTable(d, c) ==
    LET keep(row) == ValidRow(d, c, row)
        kept == SelectSeq(d.rows, keep)
        j == IndexOf(d.columns, c)
    IN [columns |-> d.columns \o <<MonthCol>>,
        rows |-> [r \in 1..Len(kept) |->
                    [src |-> kept[r].src,
                     cells |-> kept[r].cells \o <<MonthOf(kept[r].cells[j])>>]]]

-----------------------------------------------------------------------------
(* Numeric columns and the technology list, lines 237-281 *)

\* lines 246-249
exclude_keywords ==
    <<"price", "avg", "mean", "marginal", "min", "max", "product",
      "hour", "quarter", "period", "auction", "load">>

\* pd.to_numeric(errors="coerce") on one cell of a value column (line 242);
\* the value columns of the model hold no number beyond these
ToNumeric(c) ==
    CASE c.k = "num" -> c
      [] c.k = "str" /\ c.s = "0" -> Num(0)
      [] c.k = "str" /\ c.s = "100" -> Num(100)
      [] c.k = "str" /\ c.s = "240" -> Num(240)
      [] c.k = "str" /\ c.s = "-40" -> Num(0 - 40)
      [] OTHER -> NaN

\* line 239
MetaCols(c) == {c, MonthCol, SourceFileCol}

\* lines 240-242
CoerceValues(d, c) ==
    [columns |-> d.columns,
     rows |-> [r \in 1..Len(d.rows) |->
                 [src |-> d.rows[r].src,
                  cells |-> [j \in 1..Len(d.columns) |->
                               IF d.columns[j] \in MetaCols(c)
                               THEN d.rows[r].cells[j]
                               ELSE ToNumeric(d.rows[r].cells[j])]]]]

\* the column names of the model in the order Python's sorted() puts them
NameOrder ==
    << <<"Date">>, <<"Date", "SP", "(GMT+1)">>, <<"Datum">>, <<"Load">>, <<"Price">>,
       <<"Solar">>, <<"Solar", "SP">>, <<"Timestamp">>, <<"Wind">>, <<"period">>,
       <<"ZWSP", "Wind">>, <<"BOM", "Wind">> >>

\* lines 250-259: every value column is numeric after line 242
CandidateTechs(d, c) ==
    LET tech(n) == /\ InSeq(d.columns, n)
                   /\ n \notin MetaCols(c)
                   /\ ~\E i \in 1..Len(exclude_keywords) : NameContains(n, exclude_keywords[i])
    IN SelectSeq(NameOrder, tech)

\* lines 263-268
FallbackTechs ==
    << <<"Cross border electricity trading">>, <<"Hydro Run-of-River">>, <<"Biomass">>,
       <<"Fossil brown coal / lignite">>, <<"Fossil hard coal">>, <<"Fossil oil">>,
       <<"Fossil coal-derived gas">>, <<"Fossil gas">>, <<"Geothermal">>,
       <<"Hydro water reservoir">>, <<"Hydro pumped storage">>, <<"Others">>, <<"Waste">>,
       <<"Wind offshore">>, <<"Wind onshore">>, <<"Solar">> >>

-----------------------------------------------------------------------------
(* Monthly aggregations, lines 283-290 *)

\* line 290
GwhDivisor == 4000

\* a GWh figure is kept in thousandths of a GWh; x / 4000.0 is a whole number
\* of them for every x the value columns of the model sum to (multiples of 4)
PerGwh == 10 * 10 * 10

\* MWh to GWh alone, without the quarter-hour factor of line 289
DivideByThousand(total) == (total * PerGwh) \div 1000

\* sum / 4000.0
ToGwh(total) == (total * PerGwh) \div GwhDivisor

\* what a cell adds to a group's sum: sum() skips missing values
NumericOrZero(c) == IF c.k = "num" THEN c.n ELSE 0

\* insert key m into the ascending sequence of keys
RECURSIVE InsertKey(_, _)
InsertKey(keys, m) ==
    IF keys = <<>> THEN <<m>>
    ELSE IF Head(keys) = m THEN keys
    ELSE IF Head(keys) > m THEN <<m>> \o keys
    ELSE <<Head(keys)>> \o InsertKey(Tail(keys), m)

\* the group keys of groupby("Month", sort=True)
RECURSIVE GroupKeys(_, _, _)
GroupKeys(rows, j, keys) ==
    IF rows = <<>> THEN keys
    ELSE GroupKeys(Tail(rows), j, InsertKey(keys, Head(rows).cells[j].n))

\* the sum and the count of the non-missing cells of column t in group m
RECURSIVE GroupFold(_, _, _, _, _)
GroupFold(rows, j, t, m, acc) ==
    IF rows = <<>> THEN acc
    ELSE LET row == Head(rows)
             in == row.cells[j].n = m
             c == row.cells[t]
         IN GroupFold(Tail(rows), j, t, m,
                IF in THEN [total |-> acc.total + NumericOrZero(c),
                            count |-> acc.count + (IF c.k = "num" THEN 1 ELSE 0)]
                ELSE acc)

\* df.groupby("Month", sort=True)[tech]: per key, in key order, the fold
GroupBy(d, tech) ==
    LET j == IndexOf(d.columns, MonthCol)
        t == IndexOf(d.columns, tech)
        keys == GroupKeys(d.rows, j, <<>>)
    IN [i \in 1..Len(keys) |->
          [Month |-> keys[i],
           agg |-> GroupFold(d.rows, j, t, keys[i], [total |-> 0, count |-> 0])]]

\* line 285: the mean as the fraction total / count; count 0 is NaN
MonthlyAvgMw(d, tech) ==
    LET g == GroupBy(d, tech)
    IN [i \in 1..Len(g) |->
          [Month |-> g[i].Month, total |-> g[i].agg.total, count |-> g[i].agg.count]]

\* line 290
MonthlyGwh(d, tech) ==
    LET g == GroupBy(d, tech)
    IN [i \in 1..Len(g) |-> [Month |-> g[i].Month, gwh |-> ToGwh(g[i].agg.total)]]

-----------------------------------------------------------------------------
(* The inputs: the secret, the passwords a user types, the app folder *)

Secrets == {"", "hunter2"}
Passwords == {"", "hunter2", "guess"}

File(header, rows) == [header |-> header, rows |-> rows]
Folder(name, file) == name :> file

DateGmtName == <<"Date", "SP", "(GMT+1)">>
HeaderPool == <<DateGmtName, <<"Solar">>, <<"Wind">>, <<"Price">>, <<"Load">>, <<"Datum">>>>

\* the texts of one textual format, with an unparseable or an empty text
TsFamilies ==
    { {"2025-01-01T00:00+01:00", "tbd"},
      {" 2025-01-15 12:00<U+200B> ", " "},
      {SlashLow, SlashHigh, "tbd"},
      {EpochMs, EpochS, ""} }

\* the cells of col that no strategy parses
Unparsed(col) == {r \in 1..Len(col) : col[r] \in {"tbd", "", " "}}

\* one file, a timestamp column of n texts of one family and a constant
\* 100 MW; two unparseable cells put every column of the model at or below
\* the threshold
TsWorlds(lengths) ==
    UNION { { Folder("Germany 2025.csv",
                     File(<<DateGmtName, <<"Solar">>>>, [r \in 1..n |-> <<col[r], "100">>])) :
              col \in {c \in [1..n -> fam] : Cardinality(Unparsed(c)) <= 2} } :
            n \in lengths, fam \in TsFamilies }

AggCells == {"2024-12-15 00:00", "2025-01-01 00:00", "2025-02-01 00:00"} \X {"100", "tbd"}

\* one file, rows of any month order and a technology column with missing cells
AggWorlds(longest) ==
    UNION { { Folder("Germany 2025.csv", File(<<<<"Date">>, <<"Solar">>>>, rows)) :
              rows \in [1..n -> AggCells] } :
            n \in 1..longest }

\* one file of k columns whose first data row mixes unit labels and data
UnitsWorlds(widest) ==
    UNION { { Folder("Germany 2025.csv",
                     File(SubSeq(HeaderPool, 1, k),
                          << <<first>> \o rest,
                             [j \in 1..k |-> IF j = 1 THEN "2025-01-15 12:00" ELSE "240"] >>)) :
              first \in {"", "2025-01-01 00:00"},
              rest \in [1..(k - 1) -> {"Power (MW)", "Price (EUR/MWh)", "100"}] } :
            k \in 2..widest }

NamePool ==
    { <<"Date">>, <<"Timestamp">>, <<"period">>, <<"Datum">>, <<"Solar">>,
      <<"Solar", "SP">>, <<"ZWSP", "Wind">>, <<"BOM", "Wind">> }

Distinct(seq) == \A i, j \in 1..Len(seq) : seq[i] = seq[j] => i = j

\* a cell of a column by its name: an instant under a name that reads like a
\* time column, a number elsewhere
CellFor(name, r) ==
    IF DateLike(name) \/ name \in {<<"period">>, <<"Datum">>}
    THEN (IF r = 1 THEN "2025-01-01 00:00" ELSE "2025-02-01 00:00")
    ELSE "100"

\* one file with the columns in any order and under any of the names
ColumnWorlds(widest) ==
    UNION { { Folder("Germany 2025.csv",
                     File(h, [r \in 1..2 |-> [j \in 1..k |-> CellFor(h[j], r)]])) :
              h \in {x \in [1..k -> NamePool] : Distinct(x)} } :
            k \in 2..widest }

BaseFile == File(<<DateGmtName, <<"Solar">>>>,
                 << <<"", "Power (MW)">>, <<"2025-01-01T00:00+01:00", "100">>,
                    <<"2025-01-15T12:00+01:00", "240">> >>)

\* the folders: none, a file the glob does not match, a file without a header
\* line, one file with its first column under a byte-order mark, two files of
\* the same and of different columns
FolderWorlds ==
    { <<>>,
      Folder("notes.csv", BaseFile),
      Folder("Germany 2025.csv", File(<<>>, <<>>)),
      Folder("Germany 2025.csv", BaseFile),
      Folder("Germany 2025.csv",
             File(<<DateGmtName, <<"Solar">>>>,
                  << <<"tbd", "100">>, <<"2025-01-01 00:00", "-40">> >>)),
      Folder("Germany 2025.csv",
             File(<< <<"BOM", "Date">>, <<"Price">> >>, << <<"2025-01-01 00:00", "100">> >>)),
      Folder("Germany 2024.csv", File(<<DateGmtName, <<"Solar">>>>,
                                      << <<"2024-12-15 00:00", "100">> >>))
        @@ Folder("Germany 2025.csv", BaseFile),
      Folder("Germany 2024.csv", File(<<DateGmtName, <<"Wind">>>>,
                                      << <<"", "Power (MW)">>,
                                         <<"2025-02-01T00:00+01:00", "100">> >>))
        @@ Folder("Germany 2025.csv", BaseFile) }

-----------------------------------------------------------------------------
(* The state after construction: a new session, nothing run yet *)

NoCache == [filled |-> FALSE, df |-> EmptyDf, candidates |-> <<>>]

\* a new session over the folder fs with the secret in secrets
Start(secrets, folders) ==
    /\ secret_password \in secrets
    /\ files \in folders
    /\ logged_in = "absent"
    /\ submitted = FALSE
    /\ password = ""
    /\ last_submission = "none"
    /\ pc = "idle"
    /\ outcome = "none"
    /\ df = EmptyDf
    /\ date_col_candidates = <<>>
    /\ date_col = <<>>
    /\ user_override = FALSE
    /\ parse_strategy = "none"
    /\ candidate_techs = <<>>
    /\ selected_tech = <<>>
    /\ monthly_avg_mw = <<>>
    /\ monthly_gwh = <<>>
    /\ cache = NoCache

Init == Start(Secrets, FolderWorlds \cup UnitsWorlds(MaxCols))
InitParse == Start({"hunter2"}, TsWorlds({0, 1, MaxTsRows - 1, MaxTsRows}))
InitAggregate == Start({"hunter2"}, AggWorlds(MaxAggRows))
InitColumns == Start({"hunter2"}, ColumnWorlds(MaxCols))

-----------------------------------------------------------------------------
(* Login gate, lines 63-81 *)

\* the comparison of line 70 alone, without its guard on the secret
PasswordEquals(secret, pw) == pw = secret

\* line 70
CheckPassword(secret, pw) == secret # "" /\ pw = secret

\* lines 70-72 without the else branch: a failed submission leaves the flag alone
StickyFlag(ok, old) == IF ok THEN "true" ELSE old

\* lines 70-75: the value of st.session_state['logged_in'] after a submission
FlagAfterSubmit(ok, old) == IF ok THEN "true" ELSE "false"

\* a rerun of the script from its top to the gate: the user submitted the
\* login form with a password, or interacted otherwise
Rerun ==
    /\ pc = "idle"
    /\ \E sub \in BOOLEAN, pw \in Passwords :
          LET flag == IF sub THEN FlagAfterSubmit(CheckPassword(secret_password, pw), logged_in)
                      ELSE logged_in
          IN /\ submitted' = sub
             /\ password' = IF sub THEN pw ELSE password
             /\ logged_in' = flag
             /\ last_submission' = IF ~sub THEN last_submission
                                   ELSE IF pw = secret_password THEN "match" ELSE "mismatch"
             /\ pc' = IF flag = "true" THEN "load" ELSE "idle"
             /\ outcome' = IF flag = "true" THEN "none" ELSE "locked"
    /\ df' = EmptyDf
    /\ date_col_candidates' = <<>>
    /\ date_col' = <<>>
    /\ user_override' = FALSE
    /\ parse_strategy' = "none"
    /\ candidate_techs' = <<>>
    /\ selected_tech' = <<>>
    /\ monthly_avg_mw' = <<>>
    /\ monthly_gwh' = <<>>
    /\ UNCHANGED <<secret_password, files, cache>>

-----------------------------------------------------------------------------
(* Load & Parse, lines 192-235 *)

\* st.cache_data: the stored value, or the call, whose value is stored unless
\* it raised
CachedLoad == IF cache.filled THEN [ok |-> TRUE, df |-> cache.df, candidates |-> cache.candidates]
              ELSE load_data(files)

\* lines 193-206
Load ==
    /\ pc = "load"
    /\ LET r == CachedLoad
       IN /\ cache' = IF r.ok THEN [filled |-> TRUE, df |-> r.df, candidates |-> r.candidates]
                      ELSE cache
          /\ df' = r.df
          /\ date_col_candidates' = r.candidates
          /\ outcome' = IF ~r.ok THEN "load_error"
                        ELSE IF r.candidates = <<>> THEN "no_date_column" ELSE outcome
          /\ pc' = IF r.ok /\ r.candidates # <<>> THEN "choose" ELSE "idle"
    /\ UNCHANGED <<secret_password, files, logged_in, submitted, password, last_submission,
                   date_col, user_override, parse_strategy, candidate_techs, selected_tech,
                   monthly_avg_mw, monthly_gwh>>

\* line 209: the selectbox shows the candidates and starts at index 0
ChooseDateColumn ==
    /\ pc = "choose"
    /\ \E i \in 1..Len(date_col_candidates) :
          /\ date_col' = date_col_candidates[i]
          /\ user_override' = (i # 1)
    /\ pc' = "parse"
    /\ UNCHANGED <<secret_password, files, logged_in, submitted, password, last_submission,
                   outcome, df, date_col_candidates, parse_strategy, candidate_techs,
                   selected_tech, monthly_avg_mw, monthly_gwh, cache>>

\* the handler of lines 222-228 without line 229: the pass goes on
ContinueAfterError == "tz"

\* line 229: st.stop() ends the pass
AfterParseError == "idle"

\* lines 212-213, and 222-229 when try_parse_datetime raises
ParseDates ==
    /\ pc = "parse"
    /\ LET r == try_parse_datetime(Column(df, date_col))
       IN /\ df' = IF r.ok THEN SetColumn(df, date_col, r.values) ELSE df
          /\ parse_strategy' = r.strategy
          /\ outcome' = IF r.ok THEN outcome ELSE "parse_error"
          /\ pc' = IF r.ok THEN "tz" ELSE AfterParseError
    /\ UNCHANGED <<secret_password, files, logged_in, submitted, password, last_submission,
                   date_col_candidates, date_col, user_override, candidate_techs,
                   selected_tech, monthly_avg_mw, monthly_gwh, cache>>

\* lines 215-221
NormalizeTimezone ==
    /\ pc = "tz"
    /\ df' = SetColumn(df, date_col, NormalizeTz(Column(df, date_col)))
    /\ pc' = "clean"
    /\ UNCHANGED <<secret_password, files, logged_in, submitted, password, last_submission,
                   outcome, date_col_candidates, date_col, user_override, parse_strategy,
                   candidate_techs, selected_tech, monthly_avg_mw, monthly_gwh, cache>>

\* lines 231-235
Clean ==
    /\ pc = "clean"
    /\ df' = CleanTable(df, date_col)
    /\ pc' = "numeric"
    /\ UNCHANGED <<secret_password, files, logged_in, submitted, password, last_submission,
                   outcome, date_col_candidates, date_col, user_override, parse_strategy,
                   candidate_techs, selected_tech, monthly_avg_mw, monthly_gwh, cache>>

-----------------------------------------------------------------------------
(* Numeric columns, technology list, aggregation and charts, lines 237-309 *)

\* lines 237-281: with no candidate the fallback names are offered, and none
\* of them is a column of the table
SelectTechnology ==
    /\ pc = "numeric"
    /\ LET techs == CandidateTechs(df, date_col)
           offered == IF techs = <<>> THEN FallbackTechs ELSE techs
       IN /\ candidate_techs' = offered
          /\ \E i \in 1..Len(offered) :
                /\ selected_tech' = offered[i]
                /\ pc' = IF InSeq(df.columns, offered[i]) THEN "aggregate" ELSE "idle"
                /\ outcome' = IF InSeq(df.columns, offered[i]) THEN outcome ELSE "tech_missing"
    /\ df' = CoerceValues(df, date_col)
    /\ UNCHANGED <<secret_password, files, logged_in, submitted, password, last_submission,
                   date_col_candidates, date_col, user_override, parse_strategy,
                   monthly_avg_mw, monthly_gwh, cache>>

\* lines 283-290
Aggregate ==
    /\ pc = "aggregate"
    /\ monthly_avg_mw' = MonthlyAvgMw(df, selected_tech)
    /\ monthly_gwh' = MonthlyGwh(df, selected_tech)
    /\ pc' = "render"
    /\ UNCHANGED <<secret_password, files, logged_in, submitted, password, last_submission,
                   outcome, df, date_col_candidates, date_col, user_override, parse_strategy,
                   candidate_techs, selected_tech, cache>>

\* lines 292-309
Render ==
    /\ pc = "render"
    /\ outcome' = "rendered"
    /\ pc' = "idle"
    /\ UNCHANGED <<secret_password, files, logged_in, submitted, password, last_submission,
                   df, date_col_candidates, date_col, user_override, parse_strategy,
                   candidate_techs, selected_tech, monthly_avg_mw, monthly_gwh, cache>>

Next ==
    \/ Rerun
    \/ Load
    \/ ChooseDateColumn
    \/ ParseDates
    \/ NormalizeTimezone
    \/ Clean
    \/ SelectTechnology
    \/ Aggregate
    \/ Render

Spec == Init /\ [][Next]_vars
SpecParse == InitParse /\ [][Next]_vars
SpecAggregate == InitAggregate /\ [][Next]_vars
SpecColumns == InitColumns /\ [][Next]_vars

-----------------------------------------------------------------------------
(* What the properties below speak about *)

\* the script has derived the Month key in this pass: df is the cleaned table
Cleaned == InSeq(df.columns, MonthCol)

\* try_parse_datetime has run in this pass
ParseRan == date_col # <<>> /\ pc # "parse"

\* the selected column as load_data returned it, and its cleaned texts
RawSeries == Column(cache.df, date_col)
RawTexts == [i \in 1..Len(RawSeries) |-> CleanText(RawSeries[i])]

\* the non-missing fraction of the i-th strategy's result is above 0.8
ValidCount(series) == Cardinality({i \in 1..Len(series) : series[i].k = "ts"})
Over(i) ==
    LET res == StrategyParse(Strategies[i], RawTexts)
    IN ValidCount(res) * 10 > 8 * Len(res)

\* the sum of the numbers of column t of table d over the rows of index in S
RECURSIVE SumCells(_, _, _)
SumCells(d, t, S) ==
    IF S = {} THEN 0
    ELSE LET r == CHOOSE y \in S : TRUE
             c == d.rows[r].cells[t]
         IN (IF c.k = "num" THEN c.n ELSE 0) + SumCells(d, t, S \ {r})

-----------------------------------------------------------------------------
(* C1: the monthly energy series has exactly one entry per calendar month  *)
(* that occurs among the rows of the cleaned table, in ascending month     *)
(* order, and each entry is the sum of the month's numeric values of the   *)
(* selected column divided by 4000, a missing cell adding 0; 2880 rows of  *)
(* 100 MW give 72.0 GWh.                                                   *)
C1_MonthlyEnergy ==
    (pc = "render" \/ outcome = "rendered") =>
        LET j == IndexOf(df.columns, MonthCol)
            t == IndexOf(df.columns, selected_tech)
            months == {df.rows[r].cells[j].n : r \in 1..Len(df.rows)}
            rowsOf(m) == {r \in 1..Len(df.rows) : df.rows[r].cells[j].n = m}
        IN /\ {monthly_gwh[i].Month : i \in 1..Len(monthly_gwh)} = months
           /\ Len(monthly_gwh) = Cardinality(months)
           /\ \A i \in 1..Len(monthly_gwh) : \A k \in 1..Len(monthly_gwh) :
                 i < k => monthly_gwh[i].Month < monthly_gwh[k].Month
           /\ \A i \in 1..Len(monthly_gwh) :
                 monthly_gwh[i].gwh * 4000 = SumCells(df, t, rowsOf(monthly_gwh[i].Month)) * PerGwh
           /\ ToGwh(2880 * 100) = 72 * PerGwh

\* C1's case: two months whose rows come in descending order, one of them
\* with a missing cell and a number
C1_Witness ==
    /\ pc = "render"
    /\ Len(monthly_gwh) >= 2
    /\ Len(df.rows) >= 3
    /\ LET j == IndexOf(df.columns, MonthCol)
           t == IndexOf(df.columns, selected_tech)
       IN /\ df.rows[1].cells[j].n > df.rows[2].cells[j].n
          /\ \E r, q \in 1..Len(df.rows) :
                /\ r # q
                /\ df.rows[r].cells[j] = df.rows[q].cells[j]
                /\ df.rows[r].cells[t].k = "nan"
                /\ df.rows[q].cells[t].k = "num"

-----------------------------------------------------------------------------
\* the first data row of the file of index f, as the file holds it
FirstRow(f) == files[Paths(files)[f]].rows[1]

\* the share of the cells of that row that match the units pattern is above 0.3
FileUnitsShareOver(f) ==
    LET row == FirstRow(f)
        hits == Cardinality({j \in 1..Len(row) : UnitsMatch(ReadCell(row[j]))})
    IN hits * 10 > 3 * Len(row)

(* C2: if the fraction of the cells of a file's first data row that match  *)
(* the units pattern exceeds 0.3, the row is absent from the table         *)
(* load_data returns, and otherwise the row is retained; the fraction is   *)
(* taken over the cells of the file's own row.                             *)
C2_UnitsRowByFileCells ==
    cache.filled =>
        \A f \in 1..Len(Paths(files)) :
            files[Paths(files)[f]].rows # <<>> =>
                (FileUnitsShareOver(f) <=>
                    ~\E r \in 1..Len(cache.df.rows) : cache.df.rows[r].src = <<f, 1>>)

-----------------------------------------------------------------------------
(* C3: the strategies are tried in the fixed order flexible, each explicit *)
(* format in list order, milliseconds, seconds; the result is that of the  *)
(* first strategy whose non-missing fraction is above 0.8; the parse fails *)
(* exactly when no strategy's fraction is above 0.8; a returned series has *)
(* a non-missing fraction above 0.8.                                       *)
C3_FirstStrategyOverThreshold ==
    ParseRan =>
        /\ parse_strategy = "none" <=> \A i \in 1..Len(Strategies) : ~Over(i)
        /\ outcome = "parse_error" <=> parse_strategy = "none"
        /\ parse_strategy # "none" =>
              \E i \in 1..Len(Strategies) :
                 /\ Strategies[i] = parse_strategy
                 /\ Over(i)
                 /\ \A k \in 1..(i - 1) : ~Over(k)
                 /\ pc = "tz" => Column(df, date_col) = StrategyParse(Strategies[i], RawTexts)
        /\ pc = "tz" => ValidCount(Column(df, date_col)) * 10 > 8 * Len(df.rows)

\* C3's case: the flexible parse was rejected, a later format was accepted,
\* and the accepted series still holds a missing value
C3_Witness ==
    /\ pc = "tz"
    /\ parse_strategy = "%d/%m/%Y %H:%M"
    /\ ~Over(1)
    /\ \E r \in 1..Len(df.rows) : Column(df, date_col)[r].k = "nat"

-----------------------------------------------------------------------------
(* C4: in the cleaned table every row has a valid timezone-naive           *)
(* timestamp, the rows whose timestamp did not parse under the accepted    *)
(* strategy are absent (and no other row is), and every row's Month is     *)
(* midnight of the first day of the calendar month of its timestamp.       *)
C4_CleanTable ==
    Cleaned =>
        LET d == IndexOf(df.columns, date_col)
            j == IndexOf(df.columns, MonthCol)
            parsed == StrategyParse(parse_strategy, RawTexts)
        IN /\ \A r \in 1..Len(df.rows) :
                LET ts == df.rows[r].cells[d]
                    month == df.rows[r].cells[j]
                IN /\ ts.k = "ts" /\ ts.s = "naive"
                   /\ month.k = "ts" /\ month.s = "naive"
                   /\ month.n \in MonthStarts
                   /\ month.n <= ts.n
                   /\ \A m \in MonthStarts : m <= ts.n => m <= month.n
           /\ \A q \in 1..Len(cache.df.rows) :
                parsed[q].k = "ts" <=>
                    \E r \in 1..Len(df.rows) : df.rows[r].src = cache.df.rows[q].src

\* C4's case: a row was dropped and a kept row lies inside its month
C4_Witness ==
    /\ Cleaned
    /\ Len(df.rows) < Len(cache.df.rows)
    /\ \E r \in 1..Len(df.rows) :
          df.rows[r].cells[IndexOf(df.columns, date_col)].n
              > df.rows[r].cells[IndexOf(df.columns, MonthCol)].n

-----------------------------------------------------------------------------
\* the load has run in this pass
LoadRan == logged_in = "true" /\ pc # "load"

NoInputFile == \A n \in DOMAIN files : ~GlobMatches(n)

\* the pass reported o and halted: nothing was derived after it
Halted(o) ==
    /\ outcome = o
    /\ pc = "idle"
    /\ ~Cleaned
    /\ \A r \in 1..Len(df.rows) : \A j \in 1..Len(df.columns) : df.rows[r].cells[j].k # "num"
    /\ candidate_techs = <<>>
    /\ selected_tech = <<>>
    /\ monthly_avg_mw = <<>>
    /\ monthly_gwh = <<>>

(* C5: when no input file matches, or when no strategy parses the          *)
(* timestamp column above the threshold, the pass reports the error and    *)
(* halts: no Month key, no numeric coercion, no aggregate follows.         *)
C5_ErrorsHalt ==
    /\ (LoadRan /\ NoInputFile) => Halted("load_error")
    /\ (ParseRan /\ \A i \in 1..Len(Strategies) : ~Over(i)) => Halted("parse_error")

\* C5's case: the column was not parseable and the pass has ended
C5_Witness ==
    /\ ParseRan
    /\ \A i \in 1..Len(Strategies) : ~Over(i)
    /\ Len(df.rows) >= 2
    /\ outcome = "parse_error"

-----------------------------------------------------------------------------
KnownName(c) == \E i \in 1..Len(name_candidates) : name_candidates[i] = c

SetMin(S) == CHOOSE x \in S : \A y \in S : x <= y

-----------------------------------------------------------------------------
(* C7, as claimed: an instant that carries a UTC offset is normalized to   *)
(* its UTC time without the marker; a naive instant is unchanged.          *)
C7_ConvertedToUtc ==
    pc = "clean" =>
        \A r \in 1..Len(df.rows) :
            LET p == StrategyParse(parse_strategy, RawTexts)[r]
            IN p.k = "ts" =>
                  Column(df, date_col)[r] = Ts(p.n - OffsetHours(p.s), "naive")

(* C7, amended: an instant that carries a UTC offset is normalized to the  *)
(* wall-clock time it shows, without the marker (so the Month key is the   *)
(* calendar month of the local time); a naive instant is unchanged.        *)
C7_WallClockKept ==
    /\ pc = "clean" =>
          \A r \in 1..Len(df.rows) :
              LET p == StrategyParse(parse_strategy, RawTexts)[r]
              IN Column(df, date_col)[r] = IF p.k = "ts" THEN Ts(p.n, "naive") ELSE p
    /\ Cleaned =>
          \A r \in 1..Len(df.rows) :
              LET q == CHOOSE q \in 1..Len(cache.df.rows) : cache.df.rows[q].src = df.rows[r].src
                  p == StrategyParse(parse_strategy, RawTexts)[q]
                  month == df.rows[r].cells[IndexOf(df.columns, MonthCol)].n
              IN month <= p.n /\ \A m \in MonthStarts : m <= p.n => m <= month

\* C7's case: an instant with an offset whose UTC time lies in the month before
C7_Witness ==
    /\ pc = "clean"
    /\ \E r \in 1..Len(df.rows) :
          LET p == StrategyParse(parse_strategy, RawTexts)[r]
          IN /\ p.k = "ts" /\ p.s = "+01:00"
             /\ p.n \in MonthStarts
             /\ Column(df, date_col)[r].s = "naive"

-----------------------------------------------------------------------------
(* C8: in the cleaned table no column name contains a byte-order mark or a *)
(* zero-width space or has leading or trailing whitespace, whichever       *)
(* column of the file carried the artifact.                                *)
C8_ColumnNamesNormalized ==
    Cleaned =>
        \A j \in 1..Len(df.columns) :
            LET name == df.columns[j]
            IN /\ \A i \in 1..Len(name) : name[i] \notin {"BOM", "ZWSP"}
               /\ name # <<>> => (name[1] # "SP" /\ name[Len(name)] # "SP")

-----------------------------------------------------------------------------
(* C9: with an empty secret no submission logs in, whatever the password,  *)
(* the empty one included: the flag is never true and the pass ends at     *)
(* the gate.                                                               *)
C9_EmptySecretNeverLogsIn ==
    secret_password = "" =>
        /\ logged_in # "true"
        /\ submitted => logged_in = "false"
        /\ pc = "idle"
        /\ ~cache.filled

\* C9's case: the empty password was submitted against the empty secret
C9_Witness ==
    /\ secret_password = ""
    /\ submitted
    /\ password = ""
    /\ last_submission = "match"
    /\ logged_in = "false"

-----------------------------------------------------------------------------
(* C10: the steps after the gate run only while the flag is true; the flag *)
(* is true exactly when the latest submission of the session matched a     *)
(* non-empty secret; a rerun without a submission leaves the flag as it    *)
(* was.                                                                    *)
C10_GateFollowsLatestSubmission ==
    /\ [](pc # "idle" => logged_in = "true")
    /\ [](logged_in = "true" <=> (last_submission = "match" /\ secret_password # ""))
    /\ [][~submitted' => logged_in' = logged_in]_vars

\* C10's case: a login that loaded the data was revoked by a later wrong password
C10_Witness ==
    /\ cache.filled
    /\ logged_in = "false"
    /\ last_submission = "mismatch"
    /\ pc = "idle"

====
